---- MODULE Spec2Model ----
(***************************************************************************)
(* Model of field_report_main.py: a Streamlit script.  Every user          *)
(* interaction (page load, API-key entry, upload, button click, chat       *)
(* submission) re-runs the script top to bottom against the persistent     *)
(* st.session_state.  One action of the model is one interaction: the      *)
(* render pass it triggers and, when that pass ends in st.rerun(), the     *)
(* pass that follows it.                                                    *)
(*                                                                         *)
(* GeminiInspector (gemini_helper.py) is not part of the sources; its      *)
(* three operations are modelled from the specification: a call either     *)
(* returns its value or fails, and a failure propagates to the caller,     *)
(* which in a Streamlit script ends the render pass at that line.          *)
(***************************************************************************)
EXTENDS Integers, Sequences, FiniteSets, TLC

VARIABLES
    session_state,   \* st.session_state: a function from the keys present to their values
    api_key,         \* value of the sidebar text input
    uploaded_file,   \* value of the file uploader widget
    started,         \* number of conversations the model client has created
    widgets,         \* widgets rendered by the latest render pass
    pdf,             \* document built by the latest render pass
    calls,           \* Inspector calls made by the latest interaction, in order
    event,           \* the interaction that triggered the latest pass
    failed           \* the latest pass ended in an exception

vars == <<session_state, api_key, uploaded_file, started, widgets, pdf, calls, event, failed>>

----------------------------------------------------------------------------
(* Bounds *)

MaxImages == 2
MaxPrompts == 1
MaxMsgs == 3
MaxChats == 3

----------------------------------------------------------------------------
(* Values *)

None == 0
Images == 1..MaxImages
Corrupt == -1
Files == Images \cup {Corrupt}
Prompts == 1..MaxPrompts
NoKey == ""
Keys == {NoKey, "key"}

Put(f, k, v) == [a \in DOMAIN f \cup {k} |-> IF a = k THEN v ELSE f[a]]

EmptyState == [a \in {} |-> None]

FieldNames == {"chat", "messages", "image_analyzed", "current_image"}

\* variant: the messages default is assigned on every pass
get_or_init_Overwrites(ss) ==
    LET s1 == IF "chat" \notin DOMAIN ss THEN Put(ss, "chat", None) ELSE ss
        s2 == Put(s1, "messages", <<>>)
        s3 == IF "image_analyzed" \notin DOMAIN s2 THEN Put(s2, "image_analyzed", FALSE) ELSE s2
        s4 == IF "current_image" \notin DOMAIN s3 THEN Put(s3, "current_image", None) ELSE s3
    IN s4

\* lines 21-29
get_or_init(ss) ==
    LET s1 == IF "chat" \notin DOMAIN ss THEN Put(ss, "chat", None) ELSE ss
        s2 == IF "messages" \notin DOMAIN s1 THEN Put(s1, "messages", <<>>) ELSE s1
        s3 == IF "image_analyzed" \notin DOMAIN s2 THEN Put(s2, "image_analyzed", FALSE) ELSE s2
        s4 == IF "current_image" \notin DOMAIN s3 THEN Put(s3, "current_image", None) ELSE s3
    IN s4

----------------------------------------------------------------------------
(* GeminiInspector, modelled from the specification.  The argument st is   *)
(* the state of the running pass; a failed call sets status "exception".   *)

Call(fn, chat, ok) == [fn |-> fn, chat |-> chat, ok |-> ok]

start_chat(st, ok) ==
    IF ok
    THEN [st EXCEPT !.started = @ + 1,
                    !.handle = st.started + 1,
                    !.calls = Append(@, Call("start_chat", None, TRUE))]
    ELSE [st EXCEPT !.status = "exception",
                    !.calls = Append(@, Call("start_chat", None, FALSE))]

analyze_image(st, image, chat, ok) ==
    IF ok /\ st.key # NoKey
    THEN [st EXCEPT !.reply = <<"report", image>>,
                    !.calls = Append(@, Call("analyze_image", chat, TRUE))]
    ELSE [st EXCEPT !.status = "exception",
                    !.calls = Append(@, Call("analyze_image", chat, FALSE))]

send_message(st, chat, prompt, ok) ==
    IF ok /\ st.key # NoKey
    THEN [st EXCEPT !.reply = <<"reply", prompt>>,
                    !.calls = Append(@, Call("send_message", chat, TRUE))]
    ELSE [st EXCEPT !.status = "exception",
                    !.calls = Append(@, Call("send_message", chat, FALSE))]

----------------------------------------------------------------------------
(* The script, stage by stage.  A stage is skipped once the pass has ended *)
(* (status "exception" or "rerun").                                        *)

Message(role, content) == [role |-> role, content |-> content]

\* lines 21-29: state of a pass after the initialisation block
Begin(ss, n, cs, key) ==
    [ss |-> get_or_init(ss), started |-> n, calls |-> cs, key |-> key,
     widgets |-> {}, status |-> "run", handle |-> None, reply |-> <<>>,
     pdf |-> [built |-> FALSE, story |-> <<>>]]

\* variant: line 44 missing
ClearChat_KeepsFlag(st, ok) ==
    LET s1 == [st EXCEPT !.ss.messages = <<>>]
        s2 == start_chat(s1, ok)
    IN IF s2.status = "exception" THEN s2
       ELSE [s2 EXCEPT !.ss.chat = s2.handle,
                       !.status = "rerun"]

\* lines 41-45
ClearChat(st, ok) ==
    LET s1 == [st EXCEPT !.ss.messages = <<>>]
        s2 == start_chat(s1, ok)
    IN IF s2.status = "exception" THEN s2
       ELSE [s2 EXCEPT !.ss.chat = s2.handle,
                       !.ss.image_analyzed = FALSE,
                       !.status = "rerun"]

\* lines 32-45
Sidebar(st, trig, ok) ==
    LET s1 == [st EXCEPT !.widgets = @ \cup {"api_key", "clear"}]
    IN IF trig = "clear" THEN ClearChat(s1, ok) ELSE s1

\* variant: lines 52-53 missing
InitChat_Skipped(st, ok) == st

\* lines 51-53
InitChat(st, ok) ==
    IF st.status # "run" THEN st
    ELSE IF st.ss.chat = None
         THEN LET s1 == start_chat(st, ok)
              IN IF s1.status = "exception" THEN s1
                 ELSE [s1 EXCEPT !.ss.chat = s1.handle]
         ELSE st

\* variant: the button is shown whatever the flag
AnalyzeOffered_Always(ss) == TRUE

\* line 65
AnalyzeOffered(ss) == ~ss.image_analyzed

\* variant: line 71 missing
AnalyzeHandler_NoStore(st, image, ok) ==
    LET s2 == analyze_image(st, image, st.ss.chat, ok)
    IN IF s2.status = "exception" THEN s2
       ELSE [s2 EXCEPT !.ss.messages = Append(@, Message("assistant", s2.reply)),
                       !.ss.image_analyzed = TRUE,
                       !.status = "rerun"]

\* lines 68-79
AnalyzeHandler(st, image, ok) ==
    LET s1 == [st EXCEPT !.ss.current_image = image]
        s2 == analyze_image(s1, image, s1.ss.chat, ok)
    IN IF s2.status = "exception" THEN s2
       ELSE [s2 EXCEPT !.ss.messages = Append(@, Message("assistant", s2.reply)),
                       !.ss.image_analyzed = TRUE,
                       !.status = "rerun"]

\* lines 56-79
Uploader(st, trig, file, ok) ==
    IF st.status # "run" THEN st
    ELSE LET s1 == [st EXCEPT !.widgets = @ \cup {"uploader"}]
         IN IF file = None THEN s1
            ELSE IF file = Corrupt THEN [s1 EXCEPT !.status = "exception"]
            ELSE IF AnalyzeOffered(s1.ss)
                 THEN LET s2 == [s1 EXCEPT !.widgets = @ \cup {"analyze"}]
                      IN IF trig = "analyze" THEN AnalyzeHandler(s2, file, ok) ELSE s2
                 ELSE s1

\* variant: the chat input is shown whatever the flag
ChatOffered_Always(ss) == TRUE

\* line 88
ChatOffered(ss) == ss.image_analyzed

\* variant: the user message is inserted at the front of the transcript
ChatHandler_Prepends(st, prompt, ok) ==
    LET s1 == [st EXCEPT !.ss.messages = <<Message("user", <<"prompt", prompt>>)>> \o @]
        s2 == send_message(s1, s1.ss.chat, prompt, ok)
    IN IF s2.status = "exception" THEN s2
       ELSE [s2 EXCEPT !.ss.messages = Append(@, Message("assistant", s2.reply))]

\* lines 89-100
ChatHandler(st, prompt, ok) ==
    LET s1 == [st EXCEPT !.ss.messages = Append(@, Message("user", <<"prompt", prompt>>))]
        s2 == send_message(s1, s1.ss.chat, prompt, ok)
    IN IF s2.status = "exception" THEN s2
       ELSE [s2 EXCEPT !.ss.messages = Append(@, Message("assistant", s2.reply))]

\* lines 87-100
ChatInput(st, trig, prompt, ok) ==
    IF st.status # "run" THEN st
    ELSE IF ChatOffered(st.ss)
         THEN LET s1 == [st EXCEPT !.widgets = @ \cup {"chat_input"}]
              IN IF trig = "ask" THEN ChatHandler(s1, prompt, ok) ELSE s1
         ELSE st

----------------------------------------------------------------------------
(* PDF export, lines 120-170 *)

Paragraph(text, style) == [flowable |-> "Paragraph", text |-> text, style |-> style, height |-> 0]
Spacer(height) == [flowable |-> "Spacer", text |-> <<>>, style |-> "", height |-> height]

\* str.upper() on the two role names
Upper(role) == IF role = "user" THEN "USER" ELSE IF role = "assistant" THEN "ASSISTANT" ELSE role

\* line 154: f"{msg['role'].upper()}:"
RoleLabel(role) == <<Upper(role), ":">>

\* variant: one style for both roles
StyleOf_Same(role) == "AssistantStyle"

\* line 151
StyleOf(role) == IF role = "user" THEN "UserStyle" ELSE "AssistantStyle"

\* lines 149-156
RECURSIVE Blocks(_)
Blocks(msgs) ==
    IF msgs = <<>> THEN <<>>
    ELSE <<Paragraph(RoleLabel(Head(msgs).role), StyleOf(Head(msgs).role)),
           Paragraph(Head(msgs).content, StyleOf(Head(msgs).role)),
           Spacer(6)>> \o Blocks(Tail(msgs))

TitleText == <<"Construction Invoice/Estimate Analysis Report">>

\* lines 142-156
Story(msgs) == <<Paragraph(TitleText, "Title"), Spacer(12)>> \o Blocks(msgs)

\* line 121
ExportOffered(ss) == ss.messages # <<>>

\* lines 120-170
Export(st) ==
    IF st.status # "run" THEN st
    ELSE IF ExportOffered(st.ss)
         THEN [st EXCEPT !.pdf = [built |-> TRUE, story |-> Story(st.ss.messages)],
                         !.widgets = @ \cup {"download"}]
         ELSE st

----------------------------------------------------------------------------
(* One render pass, lines 1-170 *)

Script(ss, n, cs, trig, prompt, key, file, okS, okC) ==
    Export(ChatInput(Uploader(InitChat(Sidebar(Begin(ss, n, cs, key), trig, okS), okS),
                              trig, file, okC),
                     trig, prompt, okC))

\* An interaction: the pass it triggers, followed by the pass st.rerun() starts.
Interact(trig, prompt, key, file) ==
    \E okS, okC \in BOOLEAN :
        LET r1 == Script(session_state, started, <<>>, trig, prompt, key, file, okS, okC)
            r  == IF r1.status = "rerun"
                  THEN Script(r1.ss, r1.started, r1.calls, "rerun", prompt, key, file, okS, okC)
                  ELSE r1
        IN /\ session_state' = r.ss
           /\ started' = r.started
           /\ calls' = r.calls
           /\ widgets' = r.widgets
           /\ pdf' = r.pdf
           /\ failed' = (r.status = "exception")
           /\ api_key' = key
           /\ uploaded_file' = file
           /\ event' = trig

----------------------------------------------------------------------------
(* State machine *)

Init ==
    /\ session_state = EmptyState
    /\ api_key = NoKey
    /\ uploaded_file = None
    /\ started = 0
    /\ widgets = {}
    /\ pdf = [built |-> FALSE, story |-> <<>>]
    /\ calls = <<>>
    /\ event = "none"
    /\ failed = FALSE

Rendered == DOMAIN session_state = FieldNames

\* the browser opens the page: first render pass of the session
Load ==
    /\ ~Rendered
    /\ Interact("load", 1, api_key, uploaded_file)

\* line 34
EnterApiKey ==
    /\ "api_key" \in widgets
    /\ \E k \in Keys \ {api_key} : Interact("api_key", 1, k, uploaded_file)

\* line 41
ClickClear ==
    /\ "clear" \in widgets
    /\ started < MaxChats
    /\ Interact("clear", 1, api_key, uploaded_file)

\* line 56: the user picks a file
Upload ==
    /\ "uploader" \in widgets
    /\ \E f \in Files \ {uploaded_file} : Interact("upload", 1, api_key, f)

\* line 56: the user removes the file
RemoveFile ==
    /\ "uploader" \in widgets
    /\ uploaded_file # None
    /\ Interact("remove", 1, api_key, None)

\* line 68
ClickAnalyze ==
    /\ "analyze" \in widgets
    /\ Len(session_state.messages) + 1 <= MaxMsgs
    /\ Interact("analyze", 1, api_key, uploaded_file)

\* line 89
SubmitChat ==
    /\ "chat_input" \in widgets
    /\ Len(session_state.messages) + 2 <= MaxMsgs
    /\ \E p \in Prompts : Interact("ask", p, api_key, uploaded_file)

\* line 165
ClickDownload ==
    /\ "download" \in widgets
    /\ Interact("download", 1, api_key, uploaded_file)

Next ==
    \/ Load
    \/ EnterApiKey
    \/ ClickClear
    \/ Upload
    \/ RemoveFile
    \/ ClickAnalyze
    \/ SubmitChat
    \/ ClickDownload

Spec == Init /\ [][Next]_vars

----------------------------------------------------------------------------
(* Views used by the properties *)

\* the session as the script sees it after its initialisation block
Session == get_or_init(session_state)

Defaults == [chat |-> None, messages |-> <<>>, image_analyzed |-> FALSE, current_image |-> None]

AllOk(cs) == \A i \in 1..Len(cs) : cs[i].ok

Invoked(cs, fn) == \E i \in 1..Len(cs) : cs[i].fn = fn

Succeeded(cs, fn) == \E i \in 1..Len(cs) : cs[i].fn = fn /\ cs[i].ok

IsPrefix(a, b) == Len(a) <= Len(b) /\ \A i \in 1..Len(a) : a[i] = b[i]

IsReport(m) == m.role = "assistant" /\ m.content[1] = "report"

ReportIndexes(msgs) == {i \in 1..Len(msgs) : IsReport(msgs[i])}

UserCount(msgs) == Cardinality({i \in 1..Len(msgs) : msgs[i].role = "user"})

\* images analysed since the transcript was last cleared
AnalysedImages == {Session.messages[i].content[2] : i \in ReportIndexes(Session.messages)}

----------------------------------------------------------------------------
(* C1: image_analyzed is true exactly when messages holds an assistant     *)
(* entry appended by the image analysis.                                   *)
C1_FlagIffAnalysisMessage ==
    Session.image_analyzed <=> ReportIndexes(Session.messages) # {}

(* C2: an interaction in which an Inspector call fails leaves all four     *)
(* session fields as they were before the interaction.                     *)
C2_FailedCallLeavesSessionUnchanged ==
    [][(~AllOk(calls')) => session_state' = Session]_vars

(* C3 as stated: analysis is offered for the uploaded image as long as     *)
(* that image has not been analysed since the last reset, and not offered  *)
(* once it has been.                                                       *)
C3_AnalyzeOncePerImage ==
    (uploaded_file \in Images /\ ~failed /\ AllOk(calls)) =>
        ("analyze" \in widgets <=> uploaded_file \notin AnalysedImages)

(* C3 amended: the analyze action is offered exactly when the pass reaches *)
(* the uploader with a decodable image and image_analyzed false; once the  *)
(* flag is true it stays true, whatever is uploaded, until a reset         *)
(* succeeds.                                                               *)
C3_AnalyzeOncePerSession ==
    /\ []("analyze" \in widgets <=>
            ("uploader" \in widgets /\ uploaded_file \in Images /\ ~Session.image_analyzed))
    /\ [][(Session.image_analyzed /\ ~(event' = "clear" /\ AllOk(calls')))
            => session_state'.image_analyzed]_vars

C3_Witness ==
    /\ event = "upload"
    /\ uploaded_file \in Images
    /\ AnalysedImages # {}
    /\ uploaded_file \notin AnalysedImages
    /\ "uploader" \in widgets
    /\ "analyze" \notin widgets

C5_ResetEffect ==
    [][(event' = "clear" /\ AllOk(calls')) =>
        /\ session_state'.messages = <<>>
        /\ session_state'.image_analyzed = FALSE
        /\ session_state'.chat \in (1..started') \ (0..started)
        /\ session_state'.chat # Session.chat
        /\ session_state'.current_image = Session.current_image]_vars

C5_Witness ==
    /\ event = "clear"
    /\ AllOk(calls)
    /\ Session.chat > 1
    /\ Session.current_image # None
    /\ Session.messages = <<>>

(* C6: in every step other than a reset the old transcript is a prefix of  *)
(* the new one.                                                            *)
C6_AppendOnly ==
    [][event' # "clear" =>
        /\ IsPrefix(Session.messages, session_state'.messages)
        /\ Len(session_state'.messages) <= Len(Session.messages) + 2]_vars

C6_Witness ==
    /\ event = "ask"
    /\ Len(Session.messages) = 3
    /\ IsReport(Session.messages[1])
    /\ Session.messages[2].role = "user"
    /\ Session.messages[3].role = "assistant"

(* C7 as stated: after an upload current_image is the uploaded image.      *)
C7_CurrentImageIsLatestUpload ==
    (event = "upload" /\ uploaded_file \in Images /\ ~failed) =>
        Session.current_image = uploaded_file

(* C7 amended: current_image is the image on which Analyze was last        *)
(* clicked, stored whether or not the analysis then succeeds; every other  *)
(* interaction, an upload included, leaves it as it was.                   *)
C7_CurrentImageIsLastAnalyzeClick ==
    [][session_state'.current_image =
        IF event' = "analyze" THEN uploaded_file ELSE Session.current_image]_vars

C7_Witness ==
    /\ event = "upload"
    /\ uploaded_file \in Images
    /\ Session.current_image \in Images
    /\ Session.current_image # uploaded_file

(* C8: the initialisation block sets the four defaults on the first pass   *)
(* and changes nothing on any later pass.                                  *)
C8_InitIdempotent ==
    /\ session_state = EmptyState => get_or_init(session_state) = Defaults
    /\ session_state # EmptyState => get_or_init(session_state) = session_state
    /\ get_or_init(get_or_init(session_state)) = get_or_init(session_state)

C8_Witness ==
    /\ Rendered
    /\ session_state.chat # None
    /\ session_state.messages # <<>>
    /\ session_state.image_analyzed
    /\ session_state.current_image # None

\* the story the claim describes for a transcript
WellFormedStory(story, msgs) ==
    /\ Len(story) = 2 + 3 * Len(msgs)
    /\ story[1] = Paragraph(TitleText, "Title")
    /\ story[2] = Spacer(12)
    /\ \A i \in 1..Len(msgs) :
        LET style == IF msgs[i].role = "user" THEN "UserStyle" ELSE "AssistantStyle"
            label == IF msgs[i].role = "user" THEN <<"USER", ":">> ELSE <<"ASSISTANT", ":">>
        IN /\ story[3 * i] = Paragraph(label, style)
           /\ story[3 * i + 1] = Paragraph(msgs[i].content, style)
           /\ story[3 * i + 2] = Spacer(6)

(* C9 as stated: every pass that completes builds a document, title block  *)
(* plus one block per message, also for the empty transcript.              *)
C9_DocumentForEveryTranscript ==
    (Rendered /\ ~failed) =>
        (pdf.built /\ WellFormedStory(pdf.story, Session.messages))

(* C9 amended: a pass that completes builds the document, title block plus *)
(* one styled block per message in order, exactly when the transcript is   *)
(* not empty; for the empty transcript no document is built and no         *)
(* download is offered.                                                    *)
C9_DocumentForNonEmptyTranscript ==
    /\ (Rendered /\ ~failed) => (pdf.built <=> Session.messages # <<>>)
    /\ pdf.built => (~failed /\ WellFormedStory(pdf.story, Session.messages))
    /\ pdf.built <=> "download" \in widgets

C9_Witness ==
    /\ pdf.built
    /\ Len(Session.messages) = 3
    /\ UserCount(Session.messages) = 1

(* C10: analyze_image and send_message only ever receive the session's     *)
(* handle, which is not none and was returned by start_chat; the handle    *)
(* exists whenever the pass gets to the uploader, and only a reset         *)
(* replaces an existing handle.                                            *)
C10_HandleDiscipline ==
    /\ []("uploader" \in widgets => Session.chat \in 1..started)
    /\ [][/\ \A i \in 1..Len(calls') :
                calls'[i].fn \in {"analyze_image", "send_message"} =>
                    /\ calls'[i].chat # None
                    /\ calls'[i].chat \in 1..started'
                    /\ calls'[i].chat = session_state'.chat
          /\ (Session.chat # None /\ event' # "clear") => session_state'.chat = Session.chat
          /\ session_state'.chat # Session.chat =>
                (Succeeded(calls', "start_chat") /\ session_state'.chat = started')]_vars

C10_Witness ==
    /\ event = "ask"
    /\ Succeeded(calls, "send_message")
    /\ Session.chat > 1

====
